---- MODULE Spec2Model ----
(***************************************************************************)
(* Model of the interactive-marker IK command handler                      *)
(* (IKCommandInteractiveMarker) and of the part of MoveGroupCommandPanel   *)
(* that refreshes from the robot state.                                    *)
(*                                                                         *)
(* Joint positions are kept on a grid of Res steps per pi radians, so that *)
(* M_PI is Pi grid steps and 2*M_PI is TwoPi grid steps and the arithmetic *)
(* of the handler is exact.                                                *)
(***************************************************************************)
EXTENDS Integers, Sequences, FiniteSets, TLC

\* ---------------------------------------------------------------- bounds
Res == 2
MaxAngle == 4

Pi == Res
TwoPi == 2 * Pi
Angles == (0 - MaxAngle)..MaxAngle

\* ------------------------------------------------------- the robot model
NoModel == <<>>
NoSeed == <<>>
NoShown == <<>>
NoSpinBoxes == <<>>

Variables == {1, 2, 3}

\* moveit::core::JointModel descriptors: type, position_bounded_, bounds
RevWide == [type |-> "REVOLUTE", bounded |-> TRUE, lo |-> 0 - MaxAngle, hi |-> MaxAngle]
RevNarrow == [type |-> "REVOLUTE", bounded |-> TRUE, lo |-> 0 - Pi, hi |-> Pi]
RevSkew == [type |-> "REVOLUTE", bounded |-> TRUE, lo |-> 0 - 1, hi |-> MaxAngle]
RevContinuous == [type |-> "REVOLUTE", bounded |-> FALSE, lo |-> 0, hi |-> 0]
PrisBounded == [type |-> "PRISMATIC", bounded |-> TRUE, lo |-> 0 - Pi, hi |-> Pi]
PlanarBounded == [type |-> "PLANAR", bounded |-> TRUE, lo |-> 0 - Pi, hi |-> Pi]
PlanarFree == [type |-> "PLANAR", bounded |-> FALSE, lo |-> 0, hi |-> 0]
FloatingFree == [type |-> "FLOATING", bounded |-> FALSE, lo |-> 0, hi |-> 0]

\* the robot descriptions that can be loaded: variable index -> joint
RobotModels ==
  { <<RevNarrow, PrisBounded, RevWide>>,
    <<PrisBounded, PrisBounded, RevContinuous>>,
    <<FloatingFree, PrisBounded, PlanarFree>>,
    <<RevSkew, PrisBounded, PlanarBounded>> }

\* joint groups of every robot description
GroupNames == {"arm"}
\* names a caller may pass to setActiveJointGroup
CallerNames == {"", "arm", "bogus"}

\* jg->getVariableIndexList(): group variable index -> robot variable index
VariableIndexList(g) == IF g = "arm" THEN <<3, 1>> ELSE <<>>

\* GetTipLinks(*jg)
TipLinks(g) == IF g = "arm" THEN <<"wrist">> ELSE <<>>

EventTypes == {"KEEP_ALIVE", "POSE_UPDATE", "MENU_SELECT", "BUTTON_CLICK", "OTHER"}

\* ---------------------------------------------------------------- helpers
Abs(x) == IF x < 0 THEN 0 - x ELSE x

Range(s) == {s[i] : i \in 1..Len(s)}

\* std::copysign(1.0, vdiff)
CopySign(vdiff) == IF vdiff < 0 THEN 0 - 1 ELSE 1

\* (int)std::fabs(vdiff / (2.0 * M_PI))
TwoPiHops(vdiff) == Abs(vdiff) \div TwoPi

\* npos without the extra hop of lines 106-108
NormalizedPositionNoExtraHop(seedpos, solpos) ==
  LET vdiff == seedpos - solpos
  IN  solpos + TwoPi * TwoPiHops(vdiff) * CopySign(vdiff)

\* npos with an extra hop of M_PI in place of 2.0 * M_PI
NormalizedPositionHalfHop(seedpos, solpos) ==
  LET vdiff == seedpos - solpos
      n0 == solpos + TwoPi * TwoPiHops(vdiff) * CopySign(vdiff)
  IN  IF Abs(n0 - seedpos) > Pi THEN n0 + Pi * CopySign(vdiff) ELSE n0

\* npos with the test of line 106 written >= in place of >
NormalizedPositionHopAtPi(seedpos, solpos) ==
  LET vdiff == seedpos - solpos
      n0 == solpos + TwoPi * TwoPiHops(vdiff) * CopySign(vdiff)
  IN  IF Abs(n0 - seedpos) >= Pi THEN n0 + TwoPi * CopySign(vdiff) ELSE n0

\* npos with the extra hop taken whatever the distance to the seed
NormalizedPositionAlwaysHop(seedpos, solpos) ==
  LET vdiff == seedpos - solpos
      n0 == solpos + TwoPi * TwoPiHops(vdiff) * CopySign(vdiff)
  IN  n0 + TwoPi * CopySign(vdiff)

\* npos as computed from the seed position and the solved position
NormalizedPosition(seedpos, solpos) ==
  LET vdiff == seedpos - solpos
      n0 == solpos + TwoPi * TwoPiHops(vdiff) * CopySign(vdiff)
  IN  IF Abs(n0 - seedpos) > Pi THEN n0 + TwoPi * CopySign(vdiff) ELSE n0

\* the test of lines 88-89 without its position_bounded_ half
EligibleAnyRevolute(j) == j.type = "REVOLUTE"

\* the test that makes the loop skip a variable
Eligible(j) == j.type = "REVOLUTE" /\ j.bounded

\* a bounds test that looks at the upper bound only
SatisfiesUpperBound(j, value) == (~j.bounded) \/ value <= j.hi

\* robot_state->satisfiesBounds(j) for the single variable of a revolute joint
SatisfiesBounds(j, value) == (~j.bounded) \/ (j.lo <= value /\ value <= j.hi)

markerNameFromTipName(tip_name) == tip_name \o "_controls"

\* ------------------------------------------------------------------ state
VARIABLES
  rm,                   \* m_model->getRobotModel(): NoModel or a robot description
  q,                    \* m_model->getRobotState(): variable index -> position
  m_active_group_name,
  m_int_marker_names,   \* vector of marker names
  im_server,            \* markers held by m_im_server (each with its feedback callback)
  pc,                   \* position of processInteractiveMarkerFeedback
  seed,                 \* local: std::vector<double> seed
  gvidx,                \* local: loop index (1-based)
  spos,                 \* local: solved position of the variable being normalized
  npos,                 \* local: candidate position of the variable being normalized
  pendingNotify,        \* a robotStateChanged notification awaits delivery
  shown,                \* robot state last read by syncRobot
  spinbox,              \* value of the spinbox of each variable (NoSpinBoxes before setupRobotGUI)
  log                   \* record of the feedback event being handled

vars == <<rm, q, m_active_group_name, m_int_marker_names, im_server, pc, seed,
          gvidx, spos, npos, pendingNotify, shown, spinbox, log>>

ZeroState == [v \in Variables |-> 0]

NoLog ==
  [event |-> "NONE", pre_q |-> ZeroState, pre_group |-> "", pre_names |-> <<>>,
   pre_server |-> {}, jg_found |-> FALSE, ik_calls |-> 0, ik_ok |-> FALSE,
   solved |-> ZeroState, written |-> {}, reverted |-> {}, processed |-> {},
   op |-> "NONE", arg |-> "", reinits |-> 0, reinit_loaded |-> FALSE,
   reinit_group |-> "", signals |-> <<>>, set_value |-> {}, value_changed |-> {}]

\* the record of a call op(arg) at its entry
CallLog(op, arg) ==
  [NoLog EXCEPT !.op = op, !.arg = arg, !.pre_q = q,
                !.pre_group = m_active_group_name,
                !.pre_names = m_int_marker_names, !.pre_server = im_server]

\* the event record at the entry of the handler
EntryLog(event_type) ==
  [NoLog EXCEPT !.op = "feedback", !.event = event_type, !.pre_q = q,
                !.pre_group = m_active_group_name,
                !.pre_names = m_int_marker_names, !.pre_server = im_server]

Init ==
  /\ rm = NoModel
  /\ q = ZeroState
  /\ m_active_group_name = ""
  /\ m_int_marker_names = <<>>
  /\ im_server = {}
  /\ pc = "idle"
  /\ seed = NoSeed
  /\ gvidx = 0
  /\ spos = 0
  /\ npos = 0
  /\ pendingNotify = FALSE
  /\ shown = NoShown
  /\ spinbox = NoSpinBoxes
  /\ log = NoLog

\* ------------------------------------------------ signal delivery (Qt side)
\* The host dispatches one event at a time: a new event is taken only when the
\* handler has returned and no notification is waiting.
Quiescent == pc = "idle" /\ ~pendingNotify

\* a notification delivered at the emit, inside the handler
RefreshAtEmit == TRUE

\* a waiting robotStateChanged notification is delivered once the handler
\* that caused it has returned
RefreshEnabled == pc = "idle"

\* ------------------------------------------------ reinitInteractiveMarkers
\* the marker names left by reinitInteractiveMarkers for a model and a group
ReinitMarkerNames(model, group) ==
  IF model = NoModel \/ group = "" THEN <<>>
  ELSE IF group \notin GroupNames THEN <<>>
  ELSE [i \in 1..Len(TipLinks(group)) |-> markerNameFromTipName(TipLinks(group)[i])]

\* a reinitialisation without m_int_marker_names.clear()
reinitInteractiveMarkersNoClear(model, group) ==
  /\ m_int_marker_names' = m_int_marker_names \o ReinitMarkerNames(model, group)
  /\ im_server' = Range(ReinitMarkerNames(model, group))

reinitInteractiveMarkers(model, group) ==
  /\ m_int_marker_names' = ReinitMarkerNames(model, group)
  /\ im_server' = Range(ReinitMarkerNames(model, group))

\* the group whose markers setActiveJointGroup(group_name) builds
ReinitGroup(group_name) == m_active_group_name

\* a test that takes every call for a change of group
GroupChangedAlways(group_name) == TRUE

\* group_name != m_active_group_name
GroupChanged(group_name) == group_name # m_active_group_name

setActiveJointGroup(group_name) ==
  /\ Quiescent
  /\ IF GroupChanged(group_name)
       THEN /\ reinitInteractiveMarkers(rm, ReinitGroup(group_name))
            /\ m_active_group_name' = group_name
            /\ log' = [CallLog("setActiveJointGroup", group_name) EXCEPT
                         !.reinits = 1, !.reinit_loaded = (rm # NoModel),
                         !.reinit_group = ReinitGroup(group_name),
                         !.signals = <<group_name>>]
       ELSE /\ UNCHANGED <<m_int_marker_names, im_server, m_active_group_name>>
            /\ log' = CallLog("setActiveJointGroup", group_name)
  /\ UNCHANGED <<rm, q, pc, seed, gvidx, spos, npos, pendingNotify, shown, spinbox>>

\* ------------------------------------------------------------- spinboxes
\* sbpl::utils::ToDegrees, on the grid of Res steps per pi
ToDegrees(rad) == (rad * 180) \div Res

\* sbpl::utils::ToRadians, on the grid of Res steps per pi
ToRadians(deg) == (deg * Res) \div 180

isVariableAngle(model, vind) ==
  /\ model # NoModel
  /\ \/ model[vind].type = "REVOLUTE"
     \/ model[vind].type = "PLANAR" /\ ~model[vind].bounded
     \/ model[vind].type = "FLOATING" /\ ~model[vind].bounded

\* the value syncSpinBoxes compares with the spinbox of variable i
SpinBoxTarget(model, state, i) ==
  IF isVariableAngle(model, i) THEN ToDegrees(state[i]) ELSE state[i]

\* a sync that calls setValue whatever the spinbox holds
SyncWritesAlways(value, current) == TRUE

\* if (value != spinbox->value()) spinbox->setValue(value)
SyncWrites(value, current) == value # current

\* the variables whose spinbox syncSpinBoxes calls setValue on
SetValueSet(model, state, boxes) ==
  {i \in Variables : SyncWrites(SpinBoxTarget(model, state, i), boxes[i])}

\* QDoubleSpinBox::setValue raises valueChanged when the value changes
ValueChangedSet(model, state, boxes) ==
  {i \in SetValueSet(model, state, boxes) : SpinBoxTarget(model, state, i) # boxes[i]}

\* the spinboxes after syncSpinBoxes
SyncedSpinBoxes(model, state, boxes) ==
  [i \in Variables |->
     IF i \in SetValueSet(model, state, boxes)
       THEN SpinBoxTarget(model, state, i) ELSE boxes[i]]

\* the value setJointVariableFromSpinBox hands to setJointVariable
JointValueFromSpinBox(model, vind, value) ==
  IF isVariableAngle(model, vind) THEN ToRadians(value) ELSE value

\* the robot state after the valueChanged slots raised by syncSpinBoxes
StateAfterSync(model, state, boxes) ==
  [i \in Variables |->
     IF i \in ValueChangedSet(model, state, boxes)
       THEN JointValueFromSpinBox(model, i, SpinBoxTarget(model, state, i))
       ELSE state[i]]

\* the spinboxes setupRobotGUI creates
NewSpinBoxes == [i \in Variables |-> 0]

\* loadRobot: the model emits robotLoaded, which runs updateRobotModel
\* (markers) and the panel's updateRobot (setupRobotGUI, syncRobot)
loadRobot(model) ==
  /\ Quiescent
  /\ rm' = model
  /\ q' = ZeroState
  /\ reinitInteractiveMarkers(model, m_active_group_name)
  /\ spinbox' = SyncedSpinBoxes(model, ZeroState, NewSpinBoxes)
  /\ shown' = ZeroState
  /\ log' = [CallLog("loadRobot", "") EXCEPT
               !.reinits = 1, !.reinit_loaded = (model # NoModel),
               !.reinit_group = m_active_group_name,
               !.set_value = SetValueSet(model, ZeroState, NewSpinBoxes)]
  /\ UNCHANGED <<m_active_group_name, pc, seed, gvidx, spos, npos, pendingNotify>>

\* ------------------------------------------------------------- syncRobot
\* syncSpinBoxes, with the slots its setValue calls raise, then
\* updateRobotVisualization
syncRobot ==
  /\ pendingNotify
  /\ RefreshEnabled
  /\ IF rm = NoModel
       THEN /\ pendingNotify' = FALSE
            /\ log' = [log EXCEPT !.set_value = {}, !.value_changed = {}]
            /\ UNCHANGED <<q, shown, spinbox>>
       ELSE /\ spinbox' = SyncedSpinBoxes(rm, q, spinbox)
            /\ q' = StateAfterSync(rm, q, spinbox)
            /\ pendingNotify' = (q' # q)
            /\ shown' = q'
            /\ log' = [log EXCEPT !.set_value = SetValueSet(rm, q, spinbox),
                                  !.value_changed = ValueChangedSet(rm, q, spinbox)]
  /\ UNCHANGED <<rm, m_active_group_name, m_int_marker_names, im_server, pc,
                 seed, gvidx, spos, npos>>

\* the user changes the spinbox of variable vind to value: valueChanged runs
\* setJointVariableFromSpinBox, which sets the joint variable in the model
setJointVariableFromSpinBox(vind, value) ==
  /\ Quiescent
  /\ rm # NoModel
  /\ value # spinbox[vind]
  /\ spinbox' = [spinbox EXCEPT ![vind] = value]
  /\ q' = [q EXCEPT ![vind] = JointValueFromSpinBox(rm, vind, value)]
  /\ pendingNotify' = TRUE
  /\ log' = [CallLog("spinbox", "") EXCEPT !.value_changed = {vind}]
  /\ UNCHANGED <<rm, m_active_group_name, m_int_marker_names, im_server, pc,
                 seed, gvidx, spos, npos, shown>>

\* the model emits robotStateChanged for a reason of its own
robotStateChanged ==
  /\ Quiescent
  /\ pendingNotify' = TRUE
  /\ log' = CallLog("robotStateChanged", "")
  /\ UNCHANGED <<rm, q, m_active_group_name, m_int_marker_names, im_server, pc,
                 seed, gvidx, spos, npos, shown, spinbox>>

\* ---------------------------------------- processInteractiveMarkerFeedback
\* robot_state->getJointModelGroup(m_active_group_name) is not NULL
JointGroupFound == rm # NoModel /\ m_active_group_name \in GroupNames

\* robot_state->copyJointGroupPositions(jg, seed)
GroupPositions(state, group) ==
  [i \in 1..Len(VariableIndexList(group)) |-> state[VariableIndexList(group)[i]]]

\* the robot state after a successful setFromIK that solved the group to sol
StateFromIK(state, group, sol) ==
  [v \in Variables |->
     IF \E i \in 1..Len(VariableIndexList(group)) : VariableIndexList(group)[i] = v
       THEN sol[CHOOSE i \in 1..Len(VariableIndexList(group)) :
                   VariableIndexList(group)[i] = v]
       ELSE state[v]]

\* a handler that runs the loop whatever setFromIK returned
AfterIKAlwaysLoop(ok) == "loop"

\* if (m_model->setFromIK(jg, wrist_pose)) { loop } else { }
AfterIK(ok) == IF ok THEN "loop" ELSE "done"

\* a revert to the seed position in place of the solved position
RevertToSeed(seedpos, solpos) == seedpos

\* the position written back when the candidate is out of bounds
RevertPosition(seedpos, solpos) == solpos

\* the final position of one eligible variable: candidate, bound check, revert
NormalizeVariable(seedpos, solpos, j) ==
  IF SatisfiesBounds(j, NormalizedPosition(seedpos, solpos))
    THEN NormalizedPosition(seedpos, solpos)
    ELSE RevertPosition(seedpos, solpos)

\* KEEP_ALIVE, MENU_SELECT, BUTTON_CLICK and default: break
feedbackIgnored(marker_name, event_type) ==
  /\ Quiescent
  /\ marker_name \in im_server
  /\ event_type # "POSE_UPDATE"
  /\ log' = EntryLog(event_type)
  /\ pc' = "done"
  /\ UNCHANGED <<rm, q, m_active_group_name, m_int_marker_names, im_server,
                 seed, gvidx, spos, npos, pendingNotify, shown, spinbox>>

\* POSE_UPDATE, jg == NULL: break
feedbackNoGroup(marker_name) ==
  /\ Quiescent
  /\ marker_name \in im_server
  /\ ~JointGroupFound
  /\ log' = EntryLog("POSE_UPDATE")
  /\ pc' = "done"
  /\ UNCHANGED <<rm, q, m_active_group_name, m_int_marker_names, im_server,
                 seed, gvidx, spos, npos, pendingNotify, shown, spinbox>>

\* POSE_UPDATE, setFromIK fails: the else branch
feedbackIKFailed(marker_name) ==
  /\ Quiescent
  /\ marker_name \in im_server
  /\ JointGroupFound
  /\ seed' = GroupPositions(q, m_active_group_name)
  /\ log' = [EntryLog("POSE_UPDATE") EXCEPT !.jg_found = TRUE, !.ik_calls = 1]
  /\ gvidx' = IF AfterIK(FALSE) = "loop" THEN 1 ELSE gvidx
  /\ pc' = AfterIK(FALSE)
  /\ UNCHANGED <<rm, q, m_active_group_name, m_int_marker_names, im_server,
                 spos, npos, pendingNotify, shown, spinbox>>

\* POSE_UPDATE, setFromIK succeeds with the solution sol: enter the loop
feedbackIKSolved(marker_name, sol) ==
  /\ Quiescent
  /\ marker_name \in im_server
  /\ JointGroupFound
  /\ seed' = GroupPositions(q, m_active_group_name)
  /\ q' = StateFromIK(q, m_active_group_name, sol)
  /\ pendingNotify' = TRUE
  /\ log' = [EntryLog("POSE_UPDATE") EXCEPT !.jg_found = TRUE, !.ik_calls = 1,
                                             !.ik_ok = TRUE, !.solved = q']
  /\ gvidx' = 1
  /\ pc' = AfterIK(TRUE)
  /\ UNCHANGED <<rm, m_active_group_name, m_int_marker_names, im_server,
                 spos, npos, shown, spinbox>>

\* the loop condition gvidx < seed.size(), for the 1-based index
InLoop(idx, size) == idx <= size

\* int vidx = jg->getVariableIndexList()[gvidx]
Vidx == VariableIndexList(m_active_group_name)[gvidx]

\* the type / bounded test fails: continue
loopSkip ==
  /\ pc = "loop"
  /\ InLoop(gvidx, Len(seed))
  /\ ~Eligible(rm[Vidx])
  /\ gvidx' = gvidx + 1
  /\ log' = [log EXCEPT !.processed = @ \cup {gvidx}]
  /\ UNCHANGED <<rm, q, m_active_group_name, m_int_marker_names, im_server, pc,
                 seed, spos, npos, pendingNotify, shown, spinbox>>

\* compute npos and m_model->setVariablePosition(vidx, npos)
loopSetCandidate ==
  /\ pc = "loop"
  /\ InLoop(gvidx, Len(seed))
  /\ Eligible(rm[Vidx])
  /\ spos' = q[Vidx]
  /\ npos' = NormalizedPosition(seed[gvidx], q[Vidx])
  /\ q' = [q EXCEPT ![Vidx] = npos']
  /\ pendingNotify' = TRUE
  /\ log' = [log EXCEPT !.written = @ \cup {Vidx}]
  /\ pc' = "check"
  /\ UNCHANGED <<rm, m_active_group_name, m_int_marker_names, im_server,
                 seed, gvidx, shown, spinbox>>

\* satisfiesBounds(j) holds: keep the candidate
loopKeep ==
  /\ pc = "check"
  /\ SatisfiesBounds(rm[Vidx], q[Vidx])
  /\ gvidx' = gvidx + 1
  /\ log' = [log EXCEPT !.processed = @ \cup {gvidx}]
  /\ pc' = "loop"
  /\ UNCHANGED <<rm, q, m_active_group_name, m_int_marker_names, im_server,
                 seed, spos, npos, pendingNotify, shown, spinbox>>

\* satisfiesBounds(j) fails: m_model->setVariablePosition(vidx, spos)
loopRevert ==
  /\ pc = "check"
  /\ ~SatisfiesBounds(rm[Vidx], q[Vidx])
  /\ q' = [q EXCEPT ![Vidx] = RevertPosition(seed[gvidx], spos)]
  /\ pendingNotify' = TRUE
  /\ gvidx' = gvidx + 1
  /\ log' = [log EXCEPT !.processed = @ \cup {gvidx}, !.reverted = @ \cup {Vidx}]
  /\ pc' = "loop"
  /\ UNCHANGED <<rm, m_active_group_name, m_int_marker_names, im_server,
                 seed, spos, npos, shown, spinbox>>

\* the loop ends
loopExit ==
  /\ pc = "loop"
  /\ ~InLoop(gvidx, Len(seed))
  /\ pc' = "done"
  /\ UNCHANGED <<rm, q, m_active_group_name, m_int_marker_names, im_server,
                 seed, gvidx, spos, npos, pendingNotify, shown, spinbox, log>>

\* the handler returns; its locals go out of scope
feedbackReturn ==
  /\ pc = "done"
  /\ pc' = "idle"
  /\ seed' = NoSeed
  /\ gvidx' = 0
  /\ spos' = 0
  /\ npos' = 0
  /\ UNCHANGED <<rm, q, m_active_group_name, m_int_marker_names, im_server,
                 pendingNotify, shown, spinbox, log>>

Next ==
  \/ \E g \in CallerNames : setActiveJointGroup(g)
  \/ \E m \in RobotModels : loadRobot(m)
  \/ syncRobot
  \/ \E n \in im_server, e \in EventTypes : feedbackIgnored(n, e)
  \/ \E n \in im_server : feedbackNoGroup(n)
  \/ \E n \in im_server : feedbackIKFailed(n)
  \/ \E n \in im_server :
       \E sol \in [1..Len(VariableIndexList(m_active_group_name)) -> Angles] :
          feedbackIKSolved(n, sol)
  \/ loopSkip
  \/ loopSetCandidate
  \/ loopKeep
  \/ loopRevert
  \/ loopExit
  \/ feedbackReturn

Spec == Init /\ [][Next]_vars

\* ------------------------------------------------------- the panel's side
\* positions the panel runs use: IK solutions and spinbox entries
PanelAngles == {0 - Pi, 0, Pi}

\* what the user can enter in the spinbox of variable vind
SpinBoxInputs(model, vind) ==
  {IF isVariableAngle(model, vind) THEN ToDegrees(a) ELSE a : a \in PanelAngles}

NextPanel ==
  \/ \E g \in CallerNames : setActiveJointGroup(g)
  \/ \E m \in RobotModels : loadRobot(m)
  \/ syncRobot
  \/ robotStateChanged
  \/ \E vind \in Variables :
       \E value \in SpinBoxInputs(rm, vind) : setJointVariableFromSpinBox(vind, value)
  \/ \E n \in im_server :
       \E sol \in [1..Len(VariableIndexList(m_active_group_name)) -> PanelAngles] :
          feedbackIKSolved(n, sol)
  \/ loopSkip
  \/ loopSetCandidate
  \/ loopKeep
  \/ loopRevert
  \/ loopExit
  \/ feedbackReturn

SpecPanel == Init /\ [][NextPanel]_vars

\* ------------------------------------------------------------ properties
\* the handler has gone through its switch and is about to return
Handled == pc = "done"

\* a POSE_UPDATE event whose setFromIK succeeded has been fully handled
Normalized == Handled /\ log.ik_ok

\* the variable index list of the group the event worked on
IndexList == VariableIndexList(m_active_group_name)

GroupIndices == 1..Len(seed)

InInterval(j, value) == j.lo <= value /\ value <= j.hi

\* C1: after a POSE_UPDATE whose IK call succeeded, every eligible variable
\* ends within pi of its seed, or its candidate failed the bound check and it
\* ends at the solved value.
C1_NearestRepresentative ==
  Normalized =>
    \A i \in GroupIndices :
      Eligible(rm[IndexList[i]]) =>
        \/ Abs(q[IndexList[i]] - seed[i]) <= Pi
        \/ /\ IndexList[i] \in log.reverted
           /\ q[IndexList[i]] = log.solved[IndexList[i]]

\* an eligible variable solved more than a turn away from its seed was moved
\* by two hops and ends within pi of the seed
C1_Witness ==
  /\ Normalized
  /\ \E i \in GroupIndices :
       /\ Eligible(rm[IndexList[i]])
       /\ Abs(seed[i] - log.solved[IndexList[i]]) > TwoPi + Pi
       /\ IndexList[i] \notin log.reverted
       /\ Abs(q[IndexList[i]] - seed[i]) <= Pi

\* C2: after a POSE_UPDATE has been handled, every bounded variable of the
\* group whose solved value was within its bound interval ends within it.
C2_BoundSafety ==
  Normalized =>
    \A i \in GroupIndices :
      (rm[IndexList[i]].bounded /\ InInterval(rm[IndexList[i]], log.solved[IndexList[i]]))
        => InInterval(rm[IndexList[i]], q[IndexList[i]])

\* a candidate below the lower bound was reverted to an in-bounds solved value
C2_Witness ==
  /\ Normalized
  /\ \E i \in GroupIndices :
       /\ IndexList[i] \in log.reverted
       /\ npos < rm[IndexList[i]].lo
       /\ i = gvidx - 1
       /\ InInterval(rm[IndexList[i]], log.solved[IndexList[i]])
       /\ InInterval(rm[IndexList[i]], q[IndexList[i]])

\* C3: the candidate npos differs from the solved value by a whole number of
\* turns, and so does the final value of every eligible variable.
C3_CongruencePreserved ==
  /\ pc = "check" => (npos - spos) % TwoPi = 0
  /\ Normalized =>
       \A i \in GroupIndices :
         Eligible(rm[IndexList[i]]) =>
           (q[IndexList[i]] - log.solved[IndexList[i]]) % TwoPi = 0

\* a candidate one turn below the solved value has been set
C3_Witness ==
  /\ pc = "check"
  /\ npos = spos - TwoPi
  /\ q[Vidx] = npos

\* C4 as stated: an eligible variable with hops = 0 keeps its solved value
C4_ZeroHopKeepsSolved ==
  Normalized =>
    \A i \in GroupIndices :
      (Eligible(rm[IndexList[i]]) /\ TwoPiHops(seed[i] - log.solved[IndexList[i]]) = 0)
        => q[IndexList[i]] = log.solved[IndexList[i]]

\* C4 (amended): an eligible variable with hops = 0 keeps its solved value
\* when it was solved within pi of the seed; solved further away, it ends one
\* turn towards the seed if that is within bounds and at the solved value
\* otherwise.
C4_ZeroHopWithinPi ==
  Normalized =>
    \A i \in GroupIndices :
      (Eligible(rm[IndexList[i]]) /\ TwoPiHops(seed[i] - log.solved[IndexList[i]]) = 0)
        => LET v == IndexList[i]
               turn == log.solved[v] + TwoPi * CopySign(seed[i] - log.solved[v])
           IN  IF Abs(seed[i] - log.solved[v]) <= Pi
                 THEN q[v] = log.solved[v]
                 ELSE q[v] = IF InInterval(rm[v], turn) THEN turn ELSE log.solved[v]

\* an eligible variable solved exactly pi away from its seed kept its value
C4_Witness ==
  /\ Normalized
  /\ \E i \in GroupIndices :
       /\ Eligible(rm[IndexList[i]])
       /\ Abs(seed[i] - log.solved[IndexList[i]]) = Pi
       /\ IndexList[i] \in log.written
       /\ q[IndexList[i]] = log.solved[IndexList[i]]

\* C5: only REVOLUTE position-bounded variables are written; every other
\* variable keeps the value the IK solver produced.
C5_NonRevolutePassthrough ==
  /\ \A v \in log.written : rm[v].type = "REVOLUTE" /\ rm[v].bounded
  /\ Normalized =>
       \A v \in Variables :
         (rm[v].type # "REVOLUTE" \/ ~rm[v].bounded) => q[v] = log.solved[v]

\* an unbounded REVOLUTE variable solved more than pi from its seed was
\* visited by the loop and kept its solved value
C5_Witness ==
  /\ Normalized
  /\ \E i \in GroupIndices :
       /\ rm[IndexList[i]].type = "REVOLUTE"
       /\ ~rm[IndexList[i]].bounded
       /\ i \in log.processed
       /\ Abs(seed[i] - log.solved[IndexList[i]]) > Pi
       /\ q[IndexList[i]] = log.solved[IndexList[i]]

\* C6: a POSE_UPDATE whose IK call fails, or whose joint group cannot be
\* retrieved, never enters the loop and leaves the joint state as it was.
C6_SolverFailureNoOp ==
  /\ pc \in {"loop", "check"} => log.ik_ok
  /\ (Handled /\ log.event = "POSE_UPDATE" /\ ~log.ik_ok) =>
       /\ q = log.pre_q
       /\ log.written = {}
       /\ log.processed = {}

\* the IK call failed for a group that has an eligible variable away from 0
C6_Witness ==
  /\ Handled
  /\ log.event = "POSE_UPDATE"
  /\ log.jg_found
  /\ log.ik_calls = 1
  /\ ~log.ik_ok
  /\ \E i \in GroupIndices : Eligible(rm[IndexList[i]]) /\ seed[i] # 0

\* C7: a variable whose candidate is out of bounds ends at exactly its solved
\* value; the other variables are unaffected by the reversion (an ineligible
\* one keeps its solved value, an eligible one that was not reverted keeps an
\* in-bounds candidate within pi of its seed), and every variable of the
\* group is processed.
C7_RevertIsLocal ==
  Normalized =>
    /\ log.processed = GroupIndices
    /\ \A i \in GroupIndices :
         LET v == IndexList[i]
         IN  IF v \in log.reverted
               THEN q[v] = log.solved[v]
               ELSE IF Eligible(rm[v])
                 THEN InInterval(rm[v], q[v]) /\ Abs(q[v] - seed[i]) <= Pi
                 ELSE q[v] = log.solved[v]

\* the first variable of the group was reverted and the second one was
\* normalized to a value other than its solved value
C7_Witness ==
  /\ Normalized
  /\ Len(seed) = 2
  /\ IndexList[1] \in log.reverted
  /\ seed[1] # log.solved[IndexList[1]]
  /\ IndexList[2] \notin log.reverted
  /\ IndexList[2] \in log.written
  /\ q[IndexList[2]] # log.solved[IndexList[2]]

C9_SeedEqualsSolution ==
  (Normalized /\ \A i \in GroupIndices : seed[i] = log.solved[IndexList[i]])
    => q = log.solved

\* the solver returned the seed for a group with an eligible variable, at
\* values other than 0, one of them outside its bound interval
C9_Witness ==
  /\ Normalized
  /\ \A i \in GroupIndices : seed[i] = log.solved[IndexList[i]] /\ seed[i] # 0
  /\ \E i \in GroupIndices :
       Eligible(rm[IndexList[i]]) /\ ~InInterval(rm[IndexList[i]], seed[i])
  /\ q = log.solved

\* C10 as stated: the IK solver is called at most once per event, exactly once
\* by a POSE_UPDATE, and not at all by any other event, which leaves the joint
\* variables, the active group name and the markers unchanged.
C10_IKOncePerPoseUpdate ==
  /\ log.ik_calls <= 1
  /\ (Handled /\ log.event = "POSE_UPDATE") => log.ik_calls = 1
  /\ (Handled /\ log.event # "POSE_UPDATE") =>
       /\ log.ik_calls = 0
       /\ q = log.pre_q
       /\ m_active_group_name = log.pre_group
       /\ m_int_marker_names = log.pre_names
       /\ im_server = log.pre_server

\* the marker names of the tip links of a group
TipMarkerNames(group) ==
  [i \in 1..Len(TipLinks(group)) |-> TipLinks(group)[i] \o "_controls"]

\* C11: with a robot model loaded, once setActiveJointGroup(g) has returned
\* for a group g of the model, g is the active group and the live markers are
\* exactly the '<tip>_controls' markers of the tip links of g.
C11_MarkersFollowActiveGroup ==
  (log.op = "setActiveJointGroup" /\ rm # NoModel /\ log.arg \in GroupNames) =>
    /\ m_active_group_name = log.arg
    /\ m_int_marker_names = TipMarkerNames(log.arg)
    /\ im_server = Range(TipMarkerNames(log.arg))

C13_MarkerBookkeeping ==
  /\ Range(m_int_marker_names) = im_server
  /\ Len(m_int_marker_names) = Cardinality(im_server)
  /\ (log.reinits > 0 /\ (~log.reinit_loaded \/ log.reinit_group = ""
                          \/ log.reinit_group \notin GroupNames)) =>
       (m_int_marker_names = <<>> /\ im_server = {})

\* a reinitialisation for an unknown group name, with a robot loaded, has
\* removed the markers that were live
C13_Witness ==
  /\ log.reinits > 0
  /\ log.reinit_loaded
  /\ log.reinit_group = "bogus"
  /\ log.pre_names # <<>>
  /\ m_int_marker_names = <<>>
  /\ im_server = {}

\* C14: setActiveJointGroup(g) reinitialises the markers and emits
\* updateActiveJointGroup(g) once when g differs from the stored name, does
\* nothing when g equals it, and leaves g stored in both cases.
C14_ActiveGroupNotification ==
  log.op = "setActiveJointGroup" =>
    /\ m_active_group_name = log.arg
    /\ q = log.pre_q
    /\ IF log.arg # log.pre_group
         THEN log.reinits = 1 /\ log.signals = <<log.arg>>
         ELSE /\ log.reinits = 0
              /\ log.signals = <<>>
              /\ m_int_marker_names = log.pre_names
              /\ im_server = log.pre_server

\* a change of group, with a robot loaded, has rebuilt the markers and
\* emitted the signal once
C14_Witness ==
  /\ log.op = "setActiveJointGroup"
  /\ log.arg # log.pre_group
  /\ log.reinit_loaded
  /\ log.signals = <<log.arg>>
  /\ im_server # log.pre_server

\* C15: the final value of every eligible variable is the per-variable
\* normalization of its solved value, and normalizing that final value again
\* with the same seed and bounds yields it again.
C15_ReapplicationIdempotent ==
  Normalized =>
    \A i \in GroupIndices :
      Eligible(rm[IndexList[i]]) =>
        /\ q[IndexList[i]] =
             NormalizeVariable(seed[i], log.solved[IndexList[i]], rm[IndexList[i]])
        /\ NormalizeVariable(seed[i], q[IndexList[i]], rm[IndexList[i]])
             = q[IndexList[i]]

\* one variable was moved to exactly pi from its seed and kept, another was
\* reverted to a solved value away from its seed
C15_Witness ==
  /\ Normalized
  /\ \E i \in GroupIndices :
       /\ IndexList[i] \in log.written
       /\ IndexList[i] \notin log.reverted
       /\ q[IndexList[i]] # log.solved[IndexList[i]]
       /\ Abs(q[IndexList[i]] - seed[i]) = Pi
  /\ \E i \in GroupIndices :
       /\ IndexList[i] \in log.reverted
       /\ Abs(q[IndexList[i]] - seed[i]) > Pi

====
